---------------------------- MODULE Spec2Model ----------------------------
(***************************************************************************)
(* Matrix-based probabilistic linear solvers of probnum                    *)
(* (src/src/probnum/linalg/linearsolvers/matrixbased.py):                  *)
(* SymmetricMatrixBasedSolver and NoisySymmetricMatrixBasedSolver, their   *)
(* construction from priors, has_converged, the solve() loop, the          *)
(* per-iteration callback and the assembly of the returned beliefs.        *)
(*                                                                         *)
(* Numbers are exact rationals <<num, den>> with den > 0 in lowest terms.  *)
(* One more value, NaN == <<0, 0>>, stands for every non-finite IEEE value *)
(* (inf, -inf, nan): numpy divides by zero without raising, x / 0 is inf,  *)
(* -inf or nan depending on the signs of x and of the zero, and signed     *)
(* zeros are not tracked here, so the three are one absorbing value.       *)
(* Vectors are sequences of numbers (column vectors of shape (n, 1)),      *)
(* operators are dense n x n matrices (sequences of rows): a lazy operator *)
(* is represented by the matrix it applies.                                *)
(***************************************************************************)
EXTENDS Integers, Sequences, FiniteSets, TLC

(***************************************************************************)
(* Bounds of the model.                                                    *)
(***************************************************************************)
\* largest maxiter argument passed to solve()
MaxIter == 6
\* number of solve() calls made on one solver object
MaxSolves == 2

(***************************************************************************)
(* Values that are not numbers.                                            *)
(***************************************************************************)
\* Python's None where a number, an array or an operator is expected (all of
\* them sequences here), and where a string is expected
None == << >>
NoneStr == "None"

(***************************************************************************)
(* Rational arithmetic with one non-finite value.                          *)
(***************************************************************************)
NaN == <<0, 0>>

IsFinite(a) == a[2] # 0

Abs(i) == IF i < 0 THEN -i ELSE i

RECURSIVE GCD(_, _)
GCD(i, j) == IF j = 0 THEN i ELSE GCD(j, i % j)

\* the rational n / d, d # 0, in lowest terms with a positive denominator
Frac(n, d) ==
    LET g == GCD(Abs(n), Abs(d))
        s == IF d < 0 THEN -1 ELSE 1
    IN  <<(s * n) \div g, (s * d) \div g>>

Int2R(i) == <<i, 1>>

Zero == Int2R(0)
One == Int2R(1)
Half == <<1, 2>>

RNeg(a) == IF IsFinite(a) THEN <<-a[1], a[2]>> ELSE NaN

\* sums and products cancel common factors before they multiply, to keep
\* the intermediate integers small
RAdd(a, c) ==
    IF IsFinite(a) /\ IsFinite(c)
    THEN LET g == GCD(a[2], c[2])
         IN  Frac(a[1] * (c[2] \div g) + c[1] * (a[2] \div g),
                  (a[2] \div g) * c[2])
    ELSE NaN

RSub(a, c) == RAdd(a, RNeg(c))

RMul(a, c) ==
    IF IsFinite(a) /\ IsFinite(c)
    THEN LET g == GCD(Abs(a[1]), c[2])
             h == GCD(Abs(c[1]), a[2])
         IN  <<(a[1] \div g) * (c[1] \div h), (a[2] \div h) * (c[2] \div g)>>
    ELSE NaN

\* numpy's true division: a zero divisor gives a non-finite value, no exception
RDiv(a, c) ==
    IF IsFinite(a) /\ IsFinite(c) /\ c[1] # 0
    THEN RMul(a, IF c[1] < 0 THEN <<-c[2], -c[1]>> ELSE <<c[2], c[1]>>)
    ELSE NaN

\* a <= c as IEEE compares: false when an operand is nan.  Used where the
\* left operand is a norm (never -inf), so NaN on the left is inf or nan.
RLeq(a, c) == IsFinite(a) /\ IsFinite(c) /\ a[1] * c[2] <= c[1] * a[2]

RLess(a, c) == IsFinite(a) /\ IsFinite(c) /\ a[1] * c[2] < c[1] * a[2]

(***************************************************************************)
(* Vectors and matrices.                                                   *)
(***************************************************************************)
RECURSIVE SumTo(_, _)
\* f[1] + ... + f[k]
\* an array as a tuple of its evaluated entries
Array(f) == f \o << >>

SumTo(f, k) == IF k = 0 THEN Zero ELSE RAdd(SumTo(f, k - 1), f[k])

\* u.T @ v
Dot(u, v) == SumTo(Array([i \in 1..Len(u) |-> RMul(u[i], v[i])]), Len(u))

\* M @ v
MatVec(M, v) == Array([i \in 1..Len(M) |-> Dot(M[i], v)])

VecAdd(u, v) == Array([i \in 1..Len(u) |-> RAdd(u[i], v[i])])

VecSub(u, v) == Array([i \in 1..Len(u) |-> RSub(u[i], v[i])])

\* c * v
VecScale(c, v) == Array([i \in 1..Len(v) |-> RMul(c, v[i])])

\* v / c
VecDiv(v, c) == Array([i \in 1..Len(v) |-> RDiv(v[i], c)])

VecNeg(v) == Array([i \in 1..Len(v) |-> RNeg(v[i])])

\* u @ v.T
Outer(u, v) ==
    Array([i \in 1..Len(u) |-> Array([j \in 1..Len(v) |-> RMul(u[i], v[j])])])

MatAdd(M, N) == Array([i \in 1..Len(M) |-> VecAdd(M[i], N[i])])

MatSub(M, N) == Array([i \in 1..Len(M) |-> VecSub(M[i], N[i])])

MatScale(c, M) == Array([i \in 1..Len(M) |-> VecScale(c, M[i])])

\* M / d
MatDiv(M, d) == Array([i \in 1..Len(M) |-> VecDiv(M[i], d)])

\* linops.Identity(shape=n)
Identity(n) ==
    Array([i \in 1..n |-> Array([j \in 1..n |-> IF i = j THEN One ELSE Zero])])

\* the square of np.linalg.norm(v)
NormSq(v) == Dot(v, v)

Trace(M) == SumTo([i \in 1..Len(M) |-> M[i][i]], Len(M))

VecFinite(v) == \A i \in 1..Len(v) : IsFinite(v[i])

MatFinite(M) == \A i \in 1..Len(M) : VecFinite(M[i])

\* the tolerance 10 ** -e, too small to be written as <<1, 10 ** e>>
TenToMinus(e) == <<1, 10, e>>

RECURSIVE LeqTenToMinus(_, _)
\* x <= 10 ** -k for a number x >= 0
LeqTenToMinus(x, k) ==
    IF ~RLeq(x, One) THEN FALSE
    ELSE IF k = 0 THEN TRUE
    ELSE LeqTenToMinus(RMul(x, Int2R(10)), k - 1)

\* np.linalg.norm(v) <= t for a tolerance t that is a number: both sides
\* are compared through their squares, t < 0 never holds
NormLeq(v, t) ==
    IF Len(t) = 3
    THEN LeqTenToMinus(NormSq(v), 2 * t[3])
    ELSE RLeq(Zero, t) /\ RLeq(NormSq(v), RMul(t, t))


(***************************************************************************)
(* Inputs.  A linear system (A, b) with A square, n = A.shape[1], and the  *)
(* optional initial guess x0.  No matrix prior is passed (A0 = Ainv0 =     *)
(* None) in the instances explored here.                                   *)
(***************************************************************************)
Vec2(p, q) == <<Int2R(p), Int2R(q)>>

Mat2(p, q, r, s) == <<Vec2(p, q), Vec2(r, s)>>

\* x0: None, a prob.RandomVariable, an np.ndarray, or something else (a list)
X0None == [kind |-> "None", value |-> None]
X0RandVar == [kind |-> "RandomVariable", value |-> None]
X0Array(v) == [kind |-> "ndarray", value |-> v]
X0List == [kind |-> "list", value |-> None]

\* A0 and Ainv0: None, an np.ndarray, a linear operator (inv: what its inv()
\* does, "ok" or "NotImplementedError"), or a prob.RandomVariable with a
\* mean (an array or an operator) and a symmetric Kronecker covariance of
\* factor covfactor
NoPrior == [kind |-> "None"]
ArrayPrior(M) == [kind |-> "ndarray", mean |-> M]
OperatorPrior(M, i) == [kind |-> "LinearOperator", mean |-> M, inv |-> i]
RandVarPrior(m, W) == [kind |-> "RandomVariable", mean |-> m, covfactor |-> W]

\* the system of the scenario: A = [[2,0],[0,3]], b = [2,3], solution [1,1]
Scenario == [A |-> Mat2(2, 0, 0, 3), b |-> Vec2(2, 3)]

\* The solver objects constructed: class, system and the guesses x0 tried.
\*   [[1,1],[1,2]], b = (1,0): positive definite, two iterations to the solution
\*   [[2,1],[1,2]], b = (1,0): positive definite, the first residual is an
\*       eigenvector; the guess (0,1) has b.T @ x0 = 0
\*   [[2,1],[1,0]], b = (0,1): indefinite, s.T @ A @ s = 0 for the first search
\*       direction under the default priors; the guess (0,1) has b.T @ x0 > 0,
\*       the guess (1,-2) is the solution and has b.T @ x0 < 0
\*   [[1,2],[2,6]], b = (3,-1): positive definite, ill-conditioned, the
\*       residual norm grows in the first of its two iterations
\*   [[2,-1],[-1,1]], b = (1,2): positive definite, two iterations
\*   the scenario system, without a guess
Instances ==
    { [variant |-> "symmetric", A |-> Mat2(1, 1, 1, 2), b |-> Vec2(1, 0),
       x0 |-> {X0None, X0RandVar}],
      [variant |-> "symmetric", A |-> Mat2(2, 1, 1, 2), b |-> Vec2(1, 0),
       x0 |-> {X0None, X0Array(Vec2(0, 1))}],
      [variant |-> "symmetric", A |-> Mat2(2, 1, 1, 0), b |-> Vec2(0, 1),
       x0 |-> {X0None, X0Array(Vec2(0, 1))}],
      [variant |-> "symmetric", A |-> Mat2(1, 2, 2, 6), b |-> Vec2(3, 0 - 1),
       x0 |-> {X0None}],
      [variant |-> "symmetric", A |-> Mat2(2, 0 - 1, 0 - 1, 1), b |-> Vec2(1, 2),
       x0 |-> {X0None}],
      [variant |-> "symmetric", A |-> Scenario.A, b |-> Scenario.b,
       x0 |-> {X0None}],
      [variant |-> "noisy", A |-> Mat2(2, 1, 1, 2), b |-> Vec2(1, 0),
       x0 |-> {X0None, X0RandVar}],
      [variant |-> "noisy", A |-> Mat2(2, 1, 1, 0), b |-> Vec2(0, 1),
       x0 |-> {X0None, X0Array(Vec2(1, 0 - 2))}] }

\* (atol, rtol) passed to solve(); None: the argument is omitted
TolerancePairs ==
    { <<None, None>>, <<Zero, None>>, <<Zero, Zero>>, <<Zero, One>>,
      <<One, One>> }

\* ctol: the default 10 ** -6 of solve(), and a large one
CtolDefault == <<1, 1000000>>

CtolValues == { CtolDefault, Int2R(100) }

\* noise_scale (None: the argument is omitted)
NoiseScaleDefault == <<1, 100>>

NoiseScales == { None, Int2R(-1), Zero }

(***************************************************************************)
(* MatrixBasedSolver._matrix_prior_means_from_initial_solution_guess.      *)
(* self.x0 is reassigned when b.T @ x0 <= 0.  The two returned operators   *)
(* are lazy: alpha and the two scalar coefficients are fixed here, while   *)
(* (self.x0 - alpha * self.b) is read again at every application.          *)
(***************************************************************************)
\* lines 142-148, with bx0 = b.T @ x0, bb = norm(b) ** 2 and bAb = b.T @ A @ b
AdjustGuess(b_, x0_, bx0, bb, bAb) ==
    IF RLess(bx0, Zero)
    THEN [x0 |-> VecNeg(x0_), bx0 |-> RNeg(bx0), bb |-> bb]
    ELSE IF bx0 = Zero
    THEN [x0 |-> VecScale(RDiv(bb, bAb), b_),
          bx0 |-> RDiv(RMul(bb, bb), bAb), bb |-> bb]
    ELSE [x0 |-> x0_, bx0 |-> bx0, bb |-> bb]

GuessAdjust(A_, b_, x0_) ==
    AdjustGuess(b_, x0_, Dot(b_, x0_), NormSq(b_), Dot(b_, MatVec(A_, b_)))

\* the matrix c0 * I + c1 * w @ w.T
ScaledIdentityPlusOuter(c0, c1, w) ==
    MatAdd(MatScale(c0, Identity(Len(w))), MatScale(c1, Outer(w, w)))

\* the operator c0 * I + c1 * w @ w.T with w = x0 - alpha * b, for the value
\* self.x0 has when the operator is applied
GuessOperator(c0, c1, alpha, x0_, b_) ==
    ScaledIdentityPlusOuter(c0, c1, VecSub(x0_, VecScale(alpha, b_)))

\* no operator was built from a guess
NoGuess == [given |-> FALSE]

\* lines 159-167: the coefficients of the two operators, w = x0 - alpha * b
\*   Ainv0_mean = alpha * I + (2 / bx0) * w w.T
\*   A0_mean = (1 / alpha) * I - 1 / (alpha * w.T @ x0) * w w.T
GuessCoefficients(x0_, bx0, alpha, w) ==
    [given |-> TRUE,
     x0    |-> x0_,
     alpha |-> alpha,
     H_c0  |-> alpha,
     H_c1  |-> RDiv(Int2R(2), bx0),
     A_c0  |-> RDiv(One, alpha),
     A_c1  |-> RNeg(RDiv(One, RMul(alpha, Dot(w, x0_))))]

\* line 151: alpha = 0.5 * bx0 / bb
GuessAlpha(b_, x0_, bx0, alpha) ==
    GuessCoefficients(x0_, bx0, alpha, VecSub(x0_, VecScale(alpha, b_)))

GuessFromAdjusted(b_, adj) ==
    GuessAlpha(b_, adj.x0, adj.bx0, RDiv(RMul(Half, adj.bx0), adj.bb))

matrix_prior_means_from_initial_solution_guess(A_, b_, x0_) ==
    GuessFromAdjusted(b_, GuessAdjust(A_, b_, x0_))

(***************************************************************************)
(* _get_prior_params with A0 = Ainv0 = None, of both variants.  The result *)
(* is the quadruple as it is when _get_prior_params returns (the operators *)
(* applied with the self.x0 of that moment) and the value of self.x0 it    *)
(* leaves.                                                                 *)
(***************************************************************************)
PriorFromGuess(variant_, A_, b_, g, H) ==
    [raised |-> NoneStr, warnings |-> << >>, x0 |-> g.x0, guess |-> g,
     A0_mean |-> GuessOperator(g.A_c0, g.A_c1, g.alpha, g.x0, b_),
     A0_covfactor |-> IF variant_ = "symmetric" THEN A_ ELSE Identity(Len(b_)),
     Ainv0_mean |-> H,
     Ainv0_covfactor |-> H]

PriorFromGuessOperators(variant_, A_, b_, g) ==
    PriorFromGuess(variant_, A_, b_, g,
                   GuessOperator(g.H_c0, g.H_c1, g.alpha, g.x0, b_))

\* a variant that gives the symmetric solver the identity as covariance
\* factor of A, like the noisy one
get_prior_params_identity_factor(variant_, A_, b_, x0_) ==
    IF x0_.kind = "None"
    THEN [raised |-> NoneStr, warnings |-> << >>, x0 |-> None,
          guess |-> NoGuess,
          A0_mean |-> Identity(Len(b_)),
          A0_covfactor |-> Identity(Len(b_)),
          Ainv0_mean |-> Identity(Len(b_)),
          Ainv0_covfactor |-> Identity(Len(b_))]
    ELSE IF x0_.kind = "RandomVariable"
    THEN [raised |-> "NotImplementedError", warnings |-> << >>]
    ELSE PriorFromGuessOperators(variant_, A_, b_,
           matrix_prior_means_from_initial_solution_guess(A_, b_, x0_.value))

get_prior_params(variant_, A_, b_, x0_) ==
    IF x0_.kind = "None"
    THEN [raised |-> NoneStr, warnings |-> << >>, x0 |-> None,
          guess |-> NoGuess,
          A0_mean |-> Identity(Len(b_)),
          A0_covfactor |-> IF variant_ = "symmetric" THEN A_
                           ELSE Identity(Len(b_)),
          Ainv0_mean |-> Identity(Len(b_)),
          Ainv0_covfactor |-> Identity(Len(b_))]
    ELSE IF x0_.kind = "RandomVariable"
    THEN [raised |-> "NotImplementedError", warnings |-> << >>]
    ELSE PriorFromGuessOperators(variant_, A_, b_,
           matrix_prior_means_from_initial_solution_guess(A_, b_, x0_.value))

\* Cov = 1/2 (W b'Wb + Wb b'W): the operator v |-> 0.5 * (bWb * W @ v + Wb @ (Wb.T @ v))
solution_covariance(W, Wb, bWb) ==
    MatScale(Half, MatAdd(MatScale(bWb, W), Outer(Wb, Wb)))

(***************************************************************************)
(* _get_prior_params with a matrix prior, of both variants.  A result has  *)
(* the warnings emitted, "costly" (the mean was inverted naively) and      *)
(* "fallback" (the mean could not be inverted, identity instead).          *)
(***************************************************************************)
\* the determinant and the inverse of a 2 x 2 matrix
Det2(M) == RSub(RMul(M[1][1], M[2][2]), RMul(M[1][2], M[2][1]))

Inverse2(M) ==
    MatDiv(<< <<M[2][2], RNeg(M[1][2])>>, <<RNeg(M[2][1]), M[1][1]>> >>,
           Det2(M))

\* the matrix of a prior: the prior itself, or the mean of the distribution
PriorMatrix(p) == IF p.kind = "RandomVariable" THEN p.mean.mean ELSE p.mean

\* the object whose inv() the try block calls: the prior, or its mean()
PriorObject(p) == IF p.kind = "RandomVariable" THEN p.mean ELSE p

\* the try block and its handlers: the mean of the other matrix derived from
\* the prior p.  An ndarray has no inv (AttributeError): the handler warns and
\* calls np.linalg.inv(p.mean()), where the mean() of an ndarray is the
\* scalar mean of its entries and np.linalg.inv of a scalar or of a singular
\* matrix raises LinAlgError.
DerivedFrom(p, obj, n) ==
    IF obj.kind = "ndarray"
    THEN IF p.kind = "RandomVariable" /\ Det2(obj.mean) # Zero
         THEN [raised |-> NoneStr, warnings |-> <<"costly">>,
               mean |-> Inverse2(obj.mean)]
         ELSE [raised |-> "LinAlgError", warnings |-> <<"costly">>,
               mean |-> None]
    ELSE IF obj.inv = "NotImplementedError"
    THEN [raised |-> NoneStr, warnings |-> <<"fallback">>, mean |-> Identity(n)]
    ELSE [raised |-> NoneStr, warnings |-> << >>, mean |-> Inverse2(obj.mean)]

derived_mean(p, n) == DerivedFrom(p, PriorObject(p), n)

\* a mean that was passed, not derived
GivenMean(M) == [raised |-> NoneStr, warnings |-> << >>, mean |-> M]

\* self.x0 is left as it is
PriorResult(d, selfx0, A0_mean, A0_covfactor, Ainv0_mean, Ainv0_covfactor) ==
    IF d.raised # NoneStr
    THEN [raised |-> d.raised, warnings |-> d.warnings]
    ELSE [raised |-> NoneStr, warnings |-> d.warnings, x0 |-> selfx0,
          guess |-> NoGuess,
          A0_mean |-> A0_mean, A0_covfactor |-> A0_covfactor,
          Ainv0_mean |-> Ainv0_mean, Ainv0_covfactor |-> Ainv0_covfactor]

\* "Only prior on Ainv specified": A0 is None or plain, d is the mean of A
prior_on_Ainv(variant_, A_, Ainv0_, selfx0, d, n) ==
    PriorResult(d, selfx0, d.mean,
        IF variant_ = "symmetric" THEN A_ ELSE Identity(n),
        PriorMatrix(Ainv0_),
        IF Ainv0_.kind = "RandomVariable" THEN Ainv0_.covfactor
        ELSE IF variant_ = "symmetric" THEN PriorMatrix(Ainv0_)
        ELSE Identity(n))

\* "Only prior on A specified": Ainv0 is None or plain, d is the mean of Ainv
prior_on_A(variant_, A0_, selfx0, d, n) ==
    PriorResult(d, selfx0, PriorMatrix(A0_),
        IF A0_.kind = "RandomVariable" THEN A0_.covfactor
        ELSE IF variant_ = "symmetric" THEN PriorMatrix(A0_)
        ELSE Identity(n),
        d.mean,
        IF variant_ = "symmetric" THEN d.mean ELSE Identity(n))

\* the branches after "No matrix priors specified"
matrix_prior_params(variant_, A_, A0_, Ainv0_, selfx0, n) ==
    IF A0_.kind # "RandomVariable" /\ Ainv0_.kind # "None"
    THEN prior_on_Ainv(variant_, A_, Ainv0_, selfx0,
             IF A0_.kind # "None" THEN GivenMean(PriorMatrix(A0_))
             ELSE derived_mean(Ainv0_, n), n)
    ELSE IF A0_.kind # "None" /\ Ainv0_.kind # "RandomVariable"
    THEN prior_on_A(variant_, A0_, selfx0,
             IF Ainv0_.kind # "None" THEN GivenMean(PriorMatrix(Ainv0_))
             ELSE derived_mean(A0_, n), n)
    ELSE IF A0_.kind = "RandomVariable" /\ Ainv0_.kind = "RandomVariable"
    THEN PriorResult(GivenMean(None), selfx0, PriorMatrix(A0_), A0_.covfactor,
                     PriorMatrix(Ainv0_), Ainv0_.covfactor)
    ELSE [raised |-> "NotImplementedError", warnings |-> << >>]

\* _get_prior_params(A0, Ainv0, x0) called while self.x0 is selfx0: the
\* branches test the argument x0, the guess is read from self.x0
get_prior_params_at(variant_, A_, b_, A0_, Ainv0_, x0_, selfx0) ==
    IF /\ A0_.kind = "None"
       /\ Ainv0_.kind = "None"
       /\ x0_.kind \in {"None", "ndarray", "RandomVariable"}
    THEN get_prior_params(variant_, A_, b_, [x0_ EXCEPT !.value = selfx0])
    ELSE matrix_prior_params(variant_, A_, A0_, Ainv0_, selfx0, Len(b_))


(***************************************************************************)
(* __init__ of both variants.  The solver object is the record "self";     *)
(* field x is self.x (symmetric) or self.x_mean (noisy), x_cov exists in   *)
(* the noisy variant only, the three history lists in the symmetric one    *)
(* only (they are empty sequences in the noisy record), and iter_ is set   *)
(* by solve().  The means and covariance factors are stored as the         *)
(* matrices the operators apply from the end of __init__ on.               *)
(***************************************************************************)
\* self.iter_ before the first solve(): the attribute does not exist yet
Unset == 0 - 1

SymmetricSelf(p, b_, x0_) ==
    IF p.raised # NoneStr
    THEN [raised |-> p.raised]
    ELSE IF x0_.kind \notin {"None", "ndarray"}
    THEN [raised |-> "NotImplementedError"]
    ELSE [raised |-> NoneStr,
          self |->
            [x0 |-> p.x0,
             A_mean |-> p.A0_mean,
             A_covfactor |-> p.A0_covfactor,
             Ainv_mean |-> p.Ainv0_mean,
             Ainv_covfactor |-> p.Ainv0_covfactor,
             x |-> IF x0_.kind = "None" THEN MatVec(p.Ainv0_mean, b_)
                   ELSE x0_.value,
             x_cov |-> None,
             search_dir_list |-> << >>,
             obs_list |-> << >>,
             sy |-> << >>,
             iter_ |-> Unset]]

SymmetricMatrixBasedSolver_init(A_, b_, A0_, Ainv0_, x0_) ==
    SymmetricSelf(get_prior_params_at("symmetric", A_, b_, A0_, Ainv0_, x0_,
                                      x0_.value), b_, x0_)

\* H is the mean and W the covariance factor of Ainv, Am the mean of A, as
\* the operators apply from line 740 on; Wb = Ainv_covfactor @ b (line 727)
NoisySelfFrom(p, x_mean, H, W, Am, Wb, b_) ==
    [raised |-> NoneStr,
     self |->
       [x0 |-> x_mean,
        A_mean |-> Am,
        A_covfactor |-> p.A0_covfactor,
        Ainv_mean |-> H,
        Ainv_covfactor |-> W,
        x |-> x_mean,
        x_cov |-> solution_covariance(W, Wb, Dot(Wb, b_)),
        search_dir_list |-> << >>,
        obs_list |-> << >>,
        sy |-> << >>,
        iter_ |-> Unset]]

\* self.x0 = self.x_mean (line 740): the operators built from the guess
\* read this value from now on
NoisySelfAt(p, g, x_mean, b_) ==
    NoisySelfFrom(p, x_mean,
        IF ~g.given THEN p.Ainv0_mean
        ELSE GuessOperator(g.H_c0, g.H_c1, g.alpha, x_mean, b_),
        IF ~g.given THEN p.Ainv0_covfactor
        ELSE GuessOperator(g.H_c0, g.H_c1, g.alpha, x_mean, b_),
        IF ~g.given THEN p.A0_mean
        ELSE GuessOperator(g.A_c0, g.A_c1, g.alpha, x_mean, b_),
        MatVec(p.Ainv0_covfactor, b_), b_)

NoisySelf(p, b_, x0_) ==
    IF p.raised # NoneStr
    THEN [raised |-> p.raised]
    ELSE IF x0_.kind \notin {"None", "ndarray"}
    THEN [raised |-> "NotImplementedError"]
    ELSE NoisySelfAt(p, p.guess,
                     IF x0_.kind = "None" THEN MatVec(p.Ainv0_mean, b_)
                     ELSE x0_.value, b_)

NoisySymmetricMatrixBasedSolver_init(A_, b_, A0_, Ainv0_, x0_) ==
    NoisySelf(get_prior_params_at("noisy", A_, b_, A0_, Ainv0_, x0_,
                                  x0_.value), b_, x0_)

solver_init(variant_, A_, b_, A0_, Ainv0_, x0_) ==
    IF variant_ = "symmetric"
    THEN SymmetricMatrixBasedSolver_init(A_, b_, A0_, Ainv0_, x0_)
    ELSE NoisySymmetricMatrixBasedSolver_init(A_, b_, A0_, Ainv0_, x0_)

(***************************************************************************)
(* has_converged.  A verdict is [raised, has_converged, conv_crit].        *)
(* Comparing a number with None raises TypeError.                          *)
(***************************************************************************)
Verdict(h, c) == [raised |-> NoneStr, has_converged |-> h, conv_crit |-> c]

VerdictRaise(e) == [raised |-> e, has_converged |-> FALSE, conv_crit |-> NoneStr]

\* np.linalg.norm(resid) <= rtol * np.linalg.norm(self.b)
RelNormLeq(resid_, rtol_, b_) ==
    /\ RLeq(Zero, rtol_) \/ NormSq(b_) = Zero
    /\ RLeq(NormSq(resid_), RMul(RMul(rtol_, rtol_), NormSq(b_)))

\* a variant that looks at the residual before the iteration count
has_converged_tolerances_first(b_, iter, maxiter, resid_, atol, rtol) ==
    IF atol = None
    THEN VerdictRaise("TypeError")
    ELSE IF NormLeq(resid_, atol)
    THEN Verdict(TRUE, "resid_atol")
    ELSE IF rtol = None
    THEN VerdictRaise("TypeError")
    ELSE IF RelNormLeq(resid_, rtol, b_)
    THEN Verdict(TRUE, "resid_rtol")
    ELSE IF iter >= maxiter
    THEN Verdict(TRUE, "maxiter")
    ELSE Verdict(FALSE, "")

symmetric_has_converged(b_, iter, maxiter, resid_, atol, rtol) ==
    IF iter >= maxiter
    THEN Verdict(TRUE, "maxiter")
    ELSE IF atol = None
    THEN VerdictRaise("TypeError")
    ELSE IF NormLeq(resid_, atol)
    THEN Verdict(TRUE, "resid_atol")
    ELSE IF rtol = None
    THEN VerdictRaise("TypeError")
    ELSE IF RelNormLeq(resid_, rtol, b_)
    THEN Verdict(TRUE, "resid_rtol")
    ELSE Verdict(FALSE, "")

\* a variant that allows one iteration more than maxiter
has_converged_past_maxiter(x_cov_, iter, maxiter, ctol) ==
    IF iter > maxiter
    THEN Verdict(TRUE, "maxiter")
    ELSE IF RLeq(Trace(x_cov_), ctol)
    THEN Verdict(TRUE, "covariance")
    ELSE Verdict(FALSE, "")

\* a variant that looks at the covariance before the iteration count
has_converged_covariance_first(x_cov_, iter, maxiter, ctol) ==
    IF RLeq(Trace(x_cov_), ctol)
    THEN Verdict(TRUE, "covariance")
    ELSE IF iter >= maxiter
    THEN Verdict(TRUE, "maxiter")
    ELSE Verdict(FALSE, "")

noisy_has_converged(x_cov_, iter, maxiter, ctol) ==
    IF iter >= maxiter
    THEN Verdict(TRUE, "maxiter")
    ELSE IF RLeq(Trace(x_cov_), ctol)
    THEN Verdict(TRUE, "covariance")
    ELSE Verdict(FALSE, "")

(***************************************************************************)
(* The rank-2 mean update and the rank-1 covariance-factor update.         *)
(***************************************************************************)
\* SymmetricMatrixBasedSolver._mean_update: x |-> u (v.T x) + v (u.T x)
\* a variant that adds u @ v.T only
mean_update_one_sided(u, v) == Outer(u, v)

mean_update(u, v) == MatAdd(Outer(u, v), Outer(v, u))

\* NoisySymmetricMatrixBasedSolver._mean_update: the same, / (1 + noise_scale)
noisy_mean_update(u, v, noise_scale) ==
    MatDiv(mean_update(u, v), RAdd(One, noise_scale))

\* _covariance_update: x |-> u (Ws.T x)
covariance_update(u, Ws) == Outer(u, Ws)

(***************************************************************************)
(* The run of solve() is the record [self, loc, pc, ret]: the solver       *)
(* object, the locals of solve() (resid, the verdict, the quantities of    *)
(* the last iteration, the effective noise_scale), the position in         *)
(* solve() and what solve() returned or raised.                            *)
(***************************************************************************)
NoLocals ==
    [resid |-> None, has_converged |-> FALSE, conv_crit |-> NoneStr,
     search_dir |-> None, obs |-> None, step_size |-> None,
     noise_scale |-> None]

Raise(e) == [kind |-> "raise", exc |-> e]

\* solve() is running, or was never called
NoRet == [kind |-> "none"]

\* a variant whose loop runs its body before the first convergence check
solve_entry_body_first(S, A_, b_) ==
    [S EXCEPT !.self.iter_ = 0,
              !.loc = [NoLocals EXCEPT
                         !.resid = VecSub(MatVec(A_, S.self.x), b_)],
              !.pc = "iterate",
              !.ret = NoRet]

\* a variant that rejects noise_scale = 0 as well
solve_entry_rejecting_zero(S, a) ==
    LET ns == IF a.noise_scale = None THEN NoiseScaleDefault ELSE a.noise_scale
    IN  IF RLeq(ns, Zero)
        THEN [S EXCEPT !.self.iter_ = 0,
                       !.loc = NoLocals,
                       !.pc = "raised",
                       !.ret = Raise("ValueError")]
        ELSE [S EXCEPT !.self.iter_ = 0,
                       !.loc = [NoLocals EXCEPT !.noise_scale = ns],
                       !.pc = "check",
                       !.ret = NoRet]

\* solve(), from its first line to the head of the loop
symmetric_solve_entry(S, A_, b_) ==
    [S EXCEPT !.self.iter_ = 0,
              !.loc = [NoLocals EXCEPT
                         !.resid = VecSub(MatVec(A_, S.self.x), b_)],
              !.pc = "check",
              !.ret = NoRet]

noisy_solve_entry(S, a) ==
    LET ns == IF a.noise_scale = None THEN NoiseScaleDefault ELSE a.noise_scale
    IN  IF RLess(ns, Zero)
        THEN [S EXCEPT !.self.iter_ = 0,
                       !.loc = NoLocals,
                       !.pc = "raised",
                       !.ret = Raise("ValueError")]
        ELSE [S EXCEPT !.self.iter_ = 0,
                       !.loc = [NoLocals EXCEPT !.noise_scale = ns],
                       !.pc = "check",
                       !.ret = NoRet]

\* the verdict is stored in the locals; on True the loop is left (break)
apply_verdict(S, v) ==
    IF v.raised # NoneStr
    THEN [S EXCEPT !.pc = "raised", !.ret = Raise(v.raised)]
    ELSE [S EXCEPT !.loc.has_converged = v.has_converged,
                   !.loc.conv_crit = v.conv_crit,
                   !.pc = IF v.has_converged THEN "finish" ELSE "iterate"]

\* the convergence check at the head of the loop, and the break
convergence_check(S, variant_, b_, a) ==
    apply_verdict(S,
        IF variant_ = "symmetric"
        THEN symmetric_has_converged(b_, S.self.iter_, a.maxiter,
                                     S.loc.resid, a.atol, a.rtol)
        ELSE noisy_has_converged(S.self.x_cov, S.self.iter_, a.maxiter,
                                 a.ctol))

\* a variant that never reaches the callback
AfterIncrementSkipping(a) == "check"

\* where the loop body goes after the iteration increment
AfterIncrement(a) == IF a.callback THEN "callback" ELSE "check"

\* the vectors of a rank-2 update: u = Ws / (s.T @ Ws) and
\* v = delta - 0.5 * (s.T @ delta) * u
update_vectors(u, delta, s) ==
    [u |-> u, v |-> VecSub(delta, VecScale(RMul(Half, Dot(s, delta)), u))]

rank_two_vectors(Ws, delta, s) ==
    update_vectors(VecDiv(Ws, Dot(s, Ws)), delta, s)

(***************************************************************************)
(* The loop body of SymmetricMatrixBasedSolver.solve, up to the increment, *)
(* in the order of the code: search direction, observation, step size and  *)
(* the update of x and resid, update of the beliefs, iteration increment.  *)
(***************************************************************************)
\* a variant that keeps only the latest search direction
symmetric_update_latest(S, a, search_dir, obs, sy, step_size, Vs, Wy, fA, fH) ==
    [S EXCEPT
       !.self = [S.self EXCEPT
          !.search_dir_list = <<search_dir>>,
          !.obs_list = Append(@, obs),
          !.sy = Append(@, sy),
          !.x = VecAdd(@, VecScale(step_size, search_dir)),
          !.A_mean = MatAdd(@, mean_update(fA.u, fA.v)),
          !.Ainv_mean = MatAdd(@, mean_update(fH.u, fH.v)),
          !.A_covfactor = MatSub(@, covariance_update(fA.u, Vs)),
          !.Ainv_covfactor = MatSub(@, covariance_update(fH.u, Wy)),
          !.iter_ = @ + 1],
       !.loc = [S.loc EXCEPT
          !.resid = VecAdd(@, VecScale(step_size, obs)),
          !.search_dir = search_dir,
          !.obs = obs,
          !.step_size = step_size],
       !.pc = AfterIncrement(a)]

symmetric_update(S, a, search_dir, obs, sy, step_size, Vs, Wy, fA, fH) ==
    [S EXCEPT
       !.self = [S.self EXCEPT
          !.search_dir_list = Append(@, search_dir),
          !.obs_list = Append(@, obs),
          !.sy = Append(@, sy),
          !.x = VecAdd(@, VecScale(step_size, search_dir)),
          !.A_mean = MatAdd(@, mean_update(fA.u, fA.v)),
          !.Ainv_mean = MatAdd(@, mean_update(fH.u, fH.v)),
          !.A_covfactor = MatSub(@, covariance_update(fA.u, Vs)),
          !.Ainv_covfactor = MatSub(@, covariance_update(fH.u, Wy)),
          !.iter_ = @ + 1],
       !.loc = [S.loc EXCEPT
          !.resid = VecAdd(@, VecScale(step_size, obs)),
          !.search_dir = search_dir,
          !.obs = obs,
          !.step_size = step_size],
       !.pc = AfterIncrement(a)]

\* a variant that steps along the search direction with the opposite sign
symmetric_step_ascending(S, a, search_dir, obs, sy, Vs, Wy) ==
    symmetric_update(S, a, search_dir, obs, sy,
        RDiv(Dot(search_dir, S.loc.resid), sy), Vs, Wy,
        rank_two_vectors(Vs, VecSub(obs, MatVec(S.self.A_mean, search_dir)),
                         search_dir),
        rank_two_vectors(Wy, VecSub(search_dir, MatVec(S.self.Ainv_mean, obs)),
                         obs))

symmetric_step(S, a, search_dir, obs, sy, Vs, Wy) ==
    symmetric_update(S, a, search_dir, obs, sy,
        RDiv(RNeg(Dot(search_dir, S.loc.resid)), sy), Vs, Wy,
        rank_two_vectors(Vs, VecSub(obs, MatVec(S.self.A_mean, search_dir)),
                         search_dir),
        rank_two_vectors(Wy, VecSub(search_dir, MatVec(S.self.Ainv_mean, obs)),
                         obs))

symmetric_observe(S, a, search_dir, obs) ==
    symmetric_step(S, a, search_dir, obs, Dot(search_dir, obs),
                   MatVec(S.self.A_covfactor, search_dir),
                   MatVec(S.self.Ainv_covfactor, obs))

symmetric_act(S, A_, a, search_dir) ==
    symmetric_observe(S, a, search_dir, MatVec(A_, search_dir))

symmetric_iteration(S, A_, a) ==
    symmetric_act(S, A_, a, VecNeg(MatVec(S.self.Ainv_mean, S.loc.resid)))

(***************************************************************************)
(* The loop body of NoisySymmetricMatrixBasedSolver.solve, up to the       *)
(* increment: the residual is computed anew from x_mean, the means are     *)
(* updated with the noise scale, nothing else of the solver is assigned.   *)
(***************************************************************************)
\* a variant that makes the assignment the loop body leaves commented out:
\* the solution covariance becomes the zero operator
noisy_update_zero_cov(S, a, resid_, search_dir, obs, step_size, fA, fH) ==
    [S EXCEPT
       !.self = [S.self EXCEPT
          !.x = VecAdd(@, VecScale(step_size, search_dir)),
          !.x_cov = MatScale(Zero, @),
          !.A_mean = MatAdd(@, noisy_mean_update(fA.u, fA.v,
                                                 S.loc.noise_scale)),
          !.Ainv_mean = MatAdd(@, noisy_mean_update(fH.u, fH.v,
                                                    S.loc.noise_scale)),
          !.iter_ = @ + 1],
       !.loc = [S.loc EXCEPT
          !.resid = resid_,
          !.search_dir = search_dir,
          !.obs = obs,
          !.step_size = step_size],
       !.pc = AfterIncrement(a)]

noisy_update(S, a, resid_, search_dir, obs, step_size, fA, fH) ==
    [S EXCEPT
       !.self = [S.self EXCEPT
          !.x = VecAdd(@, VecScale(step_size, search_dir)),
          !.A_mean = MatAdd(@, noisy_mean_update(fA.u, fA.v,
                                                 S.loc.noise_scale)),
          !.Ainv_mean = MatAdd(@, noisy_mean_update(fH.u, fH.v,
                                                    S.loc.noise_scale)),
          !.iter_ = @ + 1],
       !.loc = [S.loc EXCEPT
          !.resid = resid_,
          !.search_dir = search_dir,
          !.obs = obs,
          !.step_size = step_size],
       !.pc = AfterIncrement(a)]

noisy_step(S, a, resid_, search_dir, obs, Vs, Wy) ==
    noisy_update(S, a, resid_, search_dir, obs,
        RDiv(RNeg(Dot(search_dir, resid_)), Dot(search_dir, obs)),
        rank_two_vectors(Vs, VecSub(obs, MatVec(S.self.A_mean, search_dir)),
                         search_dir),
        rank_two_vectors(Wy, VecSub(search_dir, MatVec(S.self.Ainv_mean, obs)),
                         obs))

noisy_observe(S, a, resid_, search_dir, obs) ==
    noisy_step(S, a, resid_, search_dir, obs,
               MatVec(S.self.A_covfactor, search_dir),
               MatVec(S.self.Ainv_covfactor, obs))

noisy_act(S, A_, a, resid_, search_dir) ==
    noisy_observe(S, a, resid_, search_dir, MatVec(A_, search_dir))

noisy_residual(S, A_, a, resid_) ==
    noisy_act(S, A_, a, resid_, VecNeg(MatVec(S.self.Ainv_mean, resid_)))

noisy_iteration(S, A_, b_, a) ==
    noisy_residual(S, A_, a, VecSub(MatVec(A_, S.self.x), b_))

iteration(S, variant_, A_, b_, a) ==
    IF variant_ = "symmetric"
    THEN symmetric_iteration(S, A_, a)
    ELSE noisy_iteration(S, A_, b_, a)

(***************************************************************************)
(* Calibration and the returned beliefs.                                   *)
(***************************************************************************)
\* _calibrate_uncertainty runs its regression only if self.iter_ > 5
CalibrationMinIter == 5

\* SymmetricMatrixBasedSolver._calibrate_uncertainty.  With self.iter_ > 5 the
\* least-squares fit multiplies (iters - x_mean), of length self.iter_, by
\* (logR - y_mean), of the length of self.sy: numpy raises ValueError when
\* the two lengths differ (both are above 5, none is broadcast).  The
\* regression itself is the external GPy model: the two scales it gives are
\* the tokens "Phi" and "Psi".
calibrate_uncertainty(self_) ==
    IF self_.iter_ > CalibrationMinIter
    THEN IF Len(self_.sy) # self_.iter_
         THEN [raised |-> "ValueError", Phi |-> NoneStr, Psi |-> NoneStr]
         ELSE [raised |-> NoneStr, Phi |-> "Phi", Psi |-> "Psi"]
    ELSE [raised |-> NoneStr, Phi |-> NoneStr, Psi |-> NoneStr]

\* remaining_dims = np.arange(self.iter_, self.A.shape[0]): the indices the
\* Rayleigh quotient is predicted at, whose mean the two scales are
remaining_dims(self_, A_) == self_.iter_ .. (Len(A_) - 1)

\* SymmetricMatrixBasedSolver._create_output_randvars: reads self, assigns
\* nothing.  A covariance factor is returned with the scale that inflates it
\* on the unexplored subspace (None: the solver's factor as it is).
output_with_covariance(self_, Phi, Psi, Wb, b_) ==
    [x_mean |-> self_.x,
     \* with Psi, the covariance built from the inflated factor
     x_cov |-> IF Psi = NoneStr
               THEN solution_covariance(self_.Ainv_covfactor, Wb, Dot(Wb, b_))
               ELSE <<Psi>>,
     A_mean |-> self_.A_mean,
     A_covfactor |-> [factor |-> self_.A_covfactor, inflation |-> Phi],
     Ainv_mean |-> self_.Ainv_mean,
     Ainv_covfactor |-> [factor |-> self_.Ainv_covfactor, inflation |-> Psi]]

symmetric_create_output_randvars(self_, b_, Phi, Psi) ==
    output_with_covariance(self_, Phi, Psi,
                           MatVec(self_.Ainv_covfactor, b_), b_)

\* NoisySymmetricMatrixBasedSolver._create_output_randvars
noisy_create_output_randvars(self_) ==
    [x_mean |-> self_.x,
     x_cov |-> self_.x_cov,
     A_mean |-> self_.A_mean,
     A_covfactor |-> [factor |-> self_.A_covfactor, inflation |-> NoneStr],
     Ainv_mean |-> self_.Ainv_mean,
     Ainv_covfactor |-> [factor |-> self_.Ainv_covfactor,
                         inflation |-> NoneStr]]

\* the beliefs handed to the callback: never calibrated
callback_randvars(self_, variant_, b_) ==
    IF variant_ = "symmetric"
    THEN symmetric_create_output_randvars(self_, b_, NoneStr, NoneStr)
    ELSE noisy_create_output_randvars(self_)

\* a variant in which the callback branch moves the solution estimate
invoke_callback_stepping(S) ==
    [S EXCEPT !.pc = "check",
              !.self.x = VecAdd(@, S.loc.search_dir)]

\* "if callback is not None: ... callback(xk=xk, ...)": a callback that does
\* not mutate its arguments leaves the run as it is
invoke_callback(S) == [S EXCEPT !.pc = "check"]

\* return x, A, Ainv, info
symmetric_return(S, a, out) ==
    [S EXCEPT
       !.pc = "returned",
       !.ret = [kind |-> "return",
                x |-> [mean |-> out.x_mean, cov |-> out.x_cov],
                A |-> [mean |-> out.A_mean, covfactor |-> out.A_covfactor],
                Ainv |-> [mean |-> out.Ainv_mean,
                          covfactor |-> out.Ainv_covfactor],
                info |-> [iter |-> S.self.iter_,
                          maxiter |-> a.maxiter,
                          \* "resid_l2norm", squared
                          resid_l2norm_sq |-> NormSq(S.loc.resid),
                          trace_cov_sol |-> None,
                          conv_crit |-> S.loc.conv_crit,
                          rel_cond |-> NoneStr]]]

symmetric_output(S, b_, a, c) ==
    IF c.raised # NoneStr
    THEN [S EXCEPT !.pc = "raised", !.ret = Raise(c.raised)]
    ELSE symmetric_return(S, a,
             symmetric_create_output_randvars(S.self, b_, c.Phi, c.Psi))

\* solve() after the loop: calibration, output random variables, info
symmetric_finish(S, b_, a) ==
    symmetric_output(S, b_, a,
        IF a.calibrate THEN calibrate_uncertainty(S.self)
        ELSE [raised |-> NoneStr, Phi |-> NoneStr, Psi |-> NoneStr])

noisy_return(S, a, out) ==
    [S EXCEPT
       !.pc = "returned",
       !.ret = [kind |-> "return",
                x |-> [mean |-> out.x_mean, cov |-> out.x_cov],
                A |-> [mean |-> out.A_mean, covfactor |-> out.A_covfactor],
                Ainv |-> [mean |-> out.Ainv_mean,
                          covfactor |-> out.Ainv_covfactor],
                info |-> [iter |-> S.self.iter_,
                          maxiter |-> a.maxiter,
                          resid_l2norm_sq |-> None,
                          trace_cov_sol |-> Trace(out.x_cov),
                          conv_crit |-> S.loc.conv_crit,
                          rel_cond |-> NoneStr]]]

noisy_finish(S, a) == noisy_return(S, a, noisy_create_output_randvars(S.self))

finish(S, variant_, b_, a) ==
    IF variant_ = "symmetric" THEN symmetric_finish(S, b_, a)
    ELSE noisy_finish(S, a)

solve_entry(S, variant_, A_, b_, a) ==
    IF variant_ = "symmetric" THEN symmetric_solve_entry(S, A_, b_)
    ELSE noisy_solve_entry(S, a)

\* the values of maxiter solve() is called with
MaxIterValues == {0, 1, 2, MaxIter - 1, MaxIter}

\* the arguments solve() can be called with
SolveArgs(variant_) ==
    IF variant_ = "symmetric"
    THEN { [maxiter |-> m, atol |-> t[1], rtol |-> t[2],
            ctol |-> None, noise_scale |-> None,
            callback |-> cb, calibrate |-> cal] :
           m \in MaxIterValues, t \in TolerancePairs,
           cb \in BOOLEAN, cal \in BOOLEAN }
    ELSE [maxiter : MaxIterValues, atol : {None}, rtol : {None},
          ctol : CtolValues, noise_scale : NoiseScales,
          callback : BOOLEAN, calibrate : {FALSE}]

\* the call of the scenario: solve(maxiter=10, atol=1e-10), rtol omitted
ScenarioArgs ==
    { [maxiter |-> 10, atol |-> TenToMinus(10), rtol |-> None,
       ctol |-> None, noise_scale |-> None,
       callback |-> cb, calibrate |-> cal] : cb \in BOOLEAN, cal \in BOOLEAN }

\* the calls made on the solver of a system: the scenario system gets the
\* call of the scenario (its second iterate needs integers beyond 32 bits)
SolveArgsOf(variant_, A_, b_) ==
    IF A_ = Scenario.A /\ b_ = Scenario.b
    THEN ScenarioArgs
    ELSE SolveArgs(variant_)

(***************************************************************************)
(* State.                                                                  *)
(*   variant, A, b, A0, Ainv0, x0                                          *)
(*                       the solver class and its constructor arguments    *)
(*   self, loc, pc, ret  the run (see above); pc is "new" before __init__, *)
(*                       "init_raised" if __init__ raised, "idle" between  *)
(*                       __init__ and the first solve()                    *)
(*   args                the arguments of the current or last solve()      *)
(*   solves              number of solve() calls started                   *)
(*   A_applied           applications of A in the current solve()          *)
(*   cb_calls            callback invocations of the current solve(): the  *)
(*                       value of self.iter_ and the xk passed at each     *)
(*   ref                 the same calls made with callback=None on a       *)
(*                       second solver object built from the same          *)
(*                       arguments, advanced in step with the first        *)
(*   last                outcome of the previous solve(), and whether the  *)
(*                       current one was called with the same arguments    *)
(*   entry               the solver object as the current solve() found it *)
(*   priors              what each call of _get_prior_params on the solver *)
(*                       object gave, the call made by __init__ first      *)
(***************************************************************************)
VARIABLES variant, A, b, A0, Ainv0, x0, self, loc, pc, ret, args, solves,
          A_applied, cb_calls, ref, last, entry, priors

vars == <<variant, A, b, A0, Ainv0, x0, self, loc, pc, ret, args, solves,
          A_applied, cb_calls, ref, last, entry, priors>>

\* the constructor arguments
inputs == <<variant, A, b, A0, Ainv0, x0>>

\* no solver object, no solve() call, no previous solve()
NoSelf == [constructed |-> FALSE]
NoArgs == [called |-> FALSE]
NoLast == [called |-> FALSE]

Cur == [self |-> self, loc |-> loc, pc |-> pc, ret |-> ret]

Commit(S) ==
    /\ self' = S.self
    /\ loc' = S.loc
    /\ pc' = S.pc
    /\ ret' = S.ret

\* what a finished solve() call shows of its result: how it ended, and for
\* a return info["iter"], info["conv_crit"] and the length of the history
Outcome(ret_, self_) ==
    [kind |-> ret_.kind,
     exc |-> IF ret_.kind = "raise" THEN ret_.exc ELSE NoneStr,
     iter |-> IF ret_.kind = "return" THEN ret_.info.iter ELSE Unset,
     conv_crit |-> IF ret_.kind = "return" THEN ret_.info.conv_crit ELSE NoneStr,
     history |-> Len(self_.search_dir_list)]

NoCallback(a) == [a EXCEPT !.callback = FALSE]

\* the second object takes the step from position p when it stands there too
RefStep(p, S) == ref' = IF ref.pc = p THEN S ELSE ref

\* nothing was constructed or called yet
Fresh ==
    /\ self = NoSelf
    /\ loc = NoLocals
    /\ pc = "new"
    /\ ret = NoRet
    /\ args = NoArgs
    /\ solves = 0
    /\ A_applied = 0
    /\ cb_calls = << >>
    /\ ref = [self |-> NoSelf, loc |-> NoLocals, pc |-> "new", ret |-> NoRet]
    /\ last = NoLast
    /\ entry = NoSelf
    /\ priors = << >>

Init ==
    /\ \E inst \in Instances :
         /\ variant = inst.variant
         /\ A = inst.A
         /\ b = inst.b
         /\ x0 \in inst.x0
    /\ A0 = NoPrior
    /\ Ainv0 = NoPrior
    /\ Fresh

\* SymmetricMatrixBasedSolver(A, b, x0=x0) / NoisySymmetricMatrixBasedSolver(...)
Constructed(r) ==
    IF r.raised # NoneStr
    THEN [Cur EXCEPT !.pc = "init_raised", !.ret = Raise(r.raised)]
    ELSE [Cur EXCEPT !.pc = "idle", !.self = r.self]

\* what a call of _get_prior_params gave: the exception or the quadruple,
\* and the warnings
PriorOutcome(r) ==
    IF r.raised # NoneStr
    THEN [raised |-> r.raised, warnings |-> r.warnings,
          A0_mean |-> None, A0_covfactor |-> None,
          Ainv0_mean |-> None, Ainv0_covfactor |-> None]
    ELSE [raised |-> NoneStr, warnings |-> r.warnings,
          A0_mean |-> r.A0_mean, A0_covfactor |-> r.A0_covfactor,
          Ainv0_mean |-> r.Ainv0_mean, Ainv0_covfactor |-> r.Ainv0_covfactor]

\* the call of _get_prior_params that __init__ makes
InitPriors == get_prior_params_at(variant, A, b, A0, Ainv0, x0, x0.value)

Construct ==
    /\ pc = "new"
    /\ Commit(Constructed(solver_init(variant, A, b, A0, Ainv0, x0)))
    /\ ref' = [self |-> self', loc |-> loc', pc |-> pc', ret |-> ret']
    /\ priors' = <<PriorOutcome(InitPriors)>>
    /\ UNCHANGED <<inputs, args, solves, A_applied, cb_calls, last, entry>>

\* the operators a new solver holds that were built from a guess read
\* self.x0 when they are applied: they follow a reassignment of self.x0.
\* Wb (line 727) was computed once.
Rebound(self_, g, x0_, W, Wb) ==
    [self_ EXCEPT
       !.x0 = x0_,
       !.A_mean = GuessOperator(g.A_c0, g.A_c1, g.alpha, x0_, b),
       !.Ainv_mean = W,
       !.Ainv_covfactor = W,
       !.x_cov = IF variant = "noisy"
                 THEN solution_covariance(W, Wb, Dot(Wb, b))
                 ELSE None]

Rebind(self_, p, r) ==
    IF r.raised # NoneStr \/ ~p.guess.given
    THEN self_
    ELSE Rebound(self_, p.guess, r.x0,
                 GuessOperator(p.guess.H_c0, p.guess.H_c1, p.guess.alpha,
                               r.x0, b),
                 MatVec(p.Ainv0_covfactor, b))

\* solver._get_prior_params(A0, Ainv0, x0) is called again, with the
\* arguments of the constructor, on a solver that has not solved yet
MaxPriorCalls == 3

ResolvePriors ==
    /\ pc = "idle"
    /\ Len(priors) < MaxPriorCalls
    /\ priors' = Append(priors,
           PriorOutcome(get_prior_params_at(variant, A, b, A0, Ainv0, x0,
                                            self.x0)))
    /\ self' = Rebind(self, InitPriors,
                      get_prior_params_at(variant, A, b, A0, Ainv0, x0,
                                          self.x0))
    /\ ref' = [ref EXCEPT !.self = self']
    /\ UNCHANGED <<inputs, loc, pc, ret, args, solves, A_applied, cb_calls,
                   last, entry>>

\* A_covfactor is self.A or an operator built on it by the updates of line
\* 619: the symmetric class without matrix priors (lines 307, 314) and with
\* a prior on Ainv (line 344); every application of it applies A
covfactor_applies_A(variant_, A0_, Ainv0_) ==
    /\ variant_ = "symmetric"
    /\ \/ A0_.kind = "None" /\ Ainv0_.kind = "None"
       \/ A0_.kind # "RandomVariable" /\ Ainv0_.kind # "None"

\* applications of A at the entry of solve(): resid = self.A @ self.x - self.b
\* in the symmetric class, none in the noisy one
entry_applications(variant_) == IF variant_ = "symmetric" THEN 1 ELSE 0

\* applications of A in one pass through the loop body.  Symmetric: obs =
\* self.A @ search_dir, and Vs = self.A_covfactor @ search_dir where that
\* factor is built on A; noisy: the residual and the observation
iteration_applications(variant_, A0_, Ainv0_) ==
    (IF variant_ = "symmetric" THEN 1 ELSE 2)
    + (IF covfactor_applies_A(variant_, A0_, Ainv0_) THEN 1 ELSE 0)

\* solver.solve(...) is called: on a new solver, or again after a solve()
\* returned or raised
SolveStart ==
    /\ pc \in {"idle", "returned", "raised"}
    /\ solves < MaxSolves
    /\ \E a \in SolveArgsOf(variant, A, b) :
         /\ args' = a
         /\ last' = IF solves = 0 THEN NoLast
                    ELSE [called |-> TRUE, same_args |-> (a = args),
                          outcome |-> Outcome(ret, self)]
         /\ Commit(solve_entry(Cur, variant, A, b, a))
         /\ ref' = IF ref.pc \in {"idle", "returned", "raised"}
                   THEN solve_entry(ref, variant, A, b, NoCallback(a))
                   ELSE ref
    /\ solves' = solves + 1
    /\ A_applied' = entry_applications(variant)
    /\ cb_calls' = << >>
    /\ entry' = self
    /\ UNCHANGED <<inputs, priors>>

\* self.has_converged(...) at the head of the loop
CheckConvergence ==
    /\ pc = "check"
    /\ Commit(convergence_check(Cur, variant, b, args))
    /\ RefStep("check", convergence_check(ref, variant, b, NoCallback(args)))
    /\ UNCHANGED <<inputs, args, solves, A_applied, cb_calls, last, entry, priors>>

\* one pass through the loop body, to the iteration increment
Iterate ==
    /\ pc = "iterate"
    /\ Commit(iteration(Cur, variant, A, b, args))
    /\ RefStep("iterate", iteration(ref, variant, A, b, NoCallback(args)))
    /\ A_applied' = A_applied + iteration_applications(variant, A0, Ainv0)
    /\ UNCHANGED <<inputs, args, solves, cb_calls, last, entry, priors>>

\* the callback is invoked with the output random variables of this iteration
Callback ==
    /\ pc = "callback"
    /\ Commit(invoke_callback(Cur))
    /\ cb_calls' = Append(cb_calls,
                     [iter |-> self.iter_,
                      xk |-> callback_randvars(self, variant, b).x_mean])
    /\ UNCHANGED <<inputs, args, solves, A_applied, ref, last, entry, priors>>

\* after the loop: calibrate, create the output random variables, return
Finish ==
    /\ pc = "finish"
    /\ Commit(finish(Cur, variant, b, args))
    /\ RefStep("finish", finish(ref, variant, b, NoCallback(args)))
    /\ UNCHANGED <<inputs, args, solves, A_applied, cb_calls, last, entry, priors>>

Next ==
    \/ Construct
    \/ SolveStart
    \/ CheckConvergence
    \/ Iterate
    \/ Callback
    \/ Finish

Spec == Init /\ [][Next]_vars

(***************************************************************************)
(* Construction and prior resolution alone, over the prior arguments: the  *)
(* systems are a positive definite one and an indefinite one with          *)
(* b.T @ A @ b < 0, the guesses have b.T @ x0 positive, zero and negative. *)
(***************************************************************************)
PriorSystems ==
    { [A |-> Mat2(2, 1, 1, 2), b |-> Vec2(1, 0)],
      [A |-> Mat2(1, 2, 2, 0 - 1), b |-> Vec2(0, 1)] }

PriorMean == Mat2(2, 0, 0, 1)

PriorValues ==
    { NoPrior,
      ArrayPrior(PriorMean),
      OperatorPrior(PriorMean, "ok"),
      OperatorPrior(PriorMean, "NotImplementedError"),
      RandVarPrior(ArrayPrior(PriorMean), Identity(2)),
      RandVarPrior(OperatorPrior(PriorMean, "ok"), Identity(2)) }

Guesses ==
    { X0None, X0RandVar, X0List, X0Array(Vec2(1, 0)), X0Array(Vec2(0, 1)),
      X0Array(Vec2(1, 0 - 1)), X0Array(Vec2(0 - 1, 1)) }

PriorInit ==
    /\ variant \in {"symmetric", "noisy"}
    /\ \E sys \in PriorSystems : A = sys.A /\ b = sys.b
    /\ A0 \in PriorValues
    /\ Ainv0 \in PriorValues
    /\ x0 \in Guesses
    /\ Fresh

PriorNext ==
    \/ Construct
    \/ ResolvePriors

PriorSpec == PriorInit /\ [][PriorNext]_vars

(***************************************************************************)
(* The two classes side by side: a NoisySymmetricMatrixBasedSolver (self,  *)
(* loc, pc, ret) and a SymmetricMatrixBasedSolver (ref) are built from the *)
(* same arguments, and solve() is called once on each, with the same       *)
(* maxiter: the noisy one with noise_scale = 0, the symmetric one with     *)
(* atol = rtol = 0.  Each takes the step of the position it stands at.     *)
(* With A the identity and a guess x0 the two classes resolve the same     *)
(* prior quadruple, and so they do with distributions as priors on both A  *)
(* and Ainv.                                                               *)
(***************************************************************************)
TwinSystems ==
    { [A |-> Identity(2), b |-> Vec2(1, 1),
       x0 |-> {X0None, X0Array(Vec2(1, 0))}, maxiter |-> {0, 1, 2}],
      [A |-> Mat2(2, 1, 1, 2), b |-> Vec2(1, 0),
       x0 |-> {X0None, X0Array(Vec2(1, 0))}, maxiter |-> {0, 1}] }

TwinPriors == { NoPrior, RandVarPrior(ArrayPrior(PriorMean), Identity(2)) }

\* the arguments of the noisy call, and those of the symmetric call made
\* along with it
NoisyTwinArgs(A_, b_) ==
    [maxiter : UNION { sys.maxiter : sys \in { t \in TwinSystems :
                                                t.A = A_ /\ t.b = b_ } },
     atol : {None}, rtol : {None},
     ctol : CtolValues, noise_scale : {Zero},
     callback : {FALSE}, calibrate : {FALSE}]

SymmetricTwinArgs(a) ==
    [a EXCEPT !.atol = Zero, !.rtol = Zero, !.ctol = None,
              !.noise_scale = None]

TwinInit ==
    /\ variant = "noisy"
    /\ \E sys \in TwinSystems : A = sys.A /\ b = sys.b /\ x0 \in sys.x0
    /\ A0 \in TwinPriors
    /\ Ainv0 \in TwinPriors
    /\ Fresh

\* the noisy solver takes the step S from position p if it stands there
NoisyStep(p, S) ==
    IF pc = p THEN Commit(S) ELSE UNCHANGED <<self, loc, pc, ret>>

ConstructedTwin(r) ==
    IF r.raised # NoneStr
    THEN [ref EXCEPT !.pc = "init_raised", !.ret = Raise(r.raised)]
    ELSE [ref EXCEPT !.pc = "idle", !.self = r.self]

TwinConstruct ==
    /\ pc = "new"
    /\ Commit(Constructed(solver_init("noisy", A, b, A0, Ainv0, x0)))
    /\ ref' = ConstructedTwin(solver_init("symmetric", A, b, A0, Ainv0, x0))
    /\ priors' = <<PriorOutcome(InitPriors)>>
    /\ UNCHANGED <<inputs, args, solves, A_applied, cb_calls, last, entry>>

TwinSolveStart ==
    /\ pc = "idle"
    /\ ref.pc = "idle"
    /\ \E a \in NoisyTwinArgs(A, b) :
         /\ args' = a
         /\ Commit(solve_entry(Cur, "noisy", A, b, a))
         /\ ref' = solve_entry(ref, "symmetric", A, b, SymmetricTwinArgs(a))
    /\ solves' = solves + 1
    /\ entry' = self
    /\ UNCHANGED <<inputs, A_applied, cb_calls, last, priors>>

TwinCheckConvergence ==
    /\ pc = "check" \/ ref.pc = "check"
    /\ NoisyStep("check", convergence_check(Cur, "noisy", b, args))
    /\ RefStep("check", convergence_check(ref, "symmetric", b,
                                          SymmetricTwinArgs(args)))
    /\ UNCHANGED <<inputs, args, solves, A_applied, cb_calls, last, entry,
                   priors>>

TwinIterate ==
    /\ pc = "iterate" \/ ref.pc = "iterate"
    /\ NoisyStep("iterate", iteration(Cur, "noisy", A, b, args))
    /\ RefStep("iterate", iteration(ref, "symmetric", A, b,
                                    SymmetricTwinArgs(args)))
    /\ UNCHANGED <<inputs, args, solves, A_applied, cb_calls, last, entry,
                   priors>>

TwinFinish ==
    /\ pc = "finish" \/ ref.pc = "finish"
    /\ NoisyStep("finish", finish(Cur, "noisy", b, args))
    /\ RefStep("finish", finish(ref, "symmetric", b, SymmetricTwinArgs(args)))
    /\ UNCHANGED <<inputs, args, solves, A_applied, cb_calls, last, entry,
                   priors>>

TwinNext ==
    \/ TwinConstruct
    \/ TwinSolveStart
    \/ TwinCheckConvergence
    \/ TwinIterate
    \/ TwinFinish

TwinSpec == TwinInit /\ [][TwinNext]_vars

(***************************************************************************)
(* Properties.                                                             *)
(***************************************************************************)
\* a solve() call was made on the solver object
Called == pc \in {"check", "iterate", "callback", "finish", "returned", "raised"}

\* the verdict of the last convergence check is in the locals, and nothing
\* it read has changed since
Checked == pc \in {"iterate", "finish", "returned"}

\* the initial estimate of the solution: x0, or Ainv0_mean @ b without x0
InitialEstimate ==
    IF x0.kind = "ndarray" THEN x0.value
    ELSE MatVec(InitPriors.Ainv0_mean, b)

\* C1: the symmetric has_converged decides in the order maxiter, resid_atol,
\* resid_rtol and the first match wins: (True, "maxiter") whenever
\* iter >= maxiter, whatever the residual; otherwise (True, "resid_atol")
\* whenever ||r|| <= atol, whatever rtol; otherwise (True, "resid_rtol") when
\* ||r|| <= rtol * ||b||; otherwise (False, "").
C1_FirstMatchWins ==
    (variant = "symmetric" /\ Checked) =>
        LET verdict == <<loc.has_converged, loc.conv_crit>>
            over    == self.iter_ >= args.maxiter
            byAtol  == args.atol # None /\ NormLeq(loc.resid, args.atol)
            byRtol  == /\ args.rtol # None
                       /\ RelNormLeq(loc.resid, args.rtol, b)
        IN  /\ over => verdict = <<TRUE, "maxiter">>
            /\ (~over /\ byAtol) => verdict = <<TRUE, "resid_atol">>
            /\ (~over /\ ~byAtol /\ byRtol) => verdict = <<TRUE, "resid_rtol">>
            /\ (~over /\ ~byAtol /\ ~byRtol) => verdict = <<FALSE, "">>

\* the cap is reached after at least one iteration while the residual also
\* meets atol and rtol, and the verdict is "maxiter"
C1_Witness ==
    /\ variant = "symmetric"
    /\ pc = "finish"
    /\ self.iter_ >= 1
    /\ self.iter_ >= args.maxiter
    /\ args.atol # None
    /\ NormLeq(loc.resid, args.atol)
    /\ args.rtol # None
    /\ RelNormLeq(loc.resid, args.rtol, b)
    /\ loc.conv_crit = "maxiter"

\* the iteration counter never exceeds maxiter, a returned info["iter"] is
\* the counter, and a loop left without a tolerance criterion was left with
\* iter = maxiter and criterion "maxiter"
IterationCap ==
    Called =>
        /\ self.iter_ <= args.maxiter
        /\ pc = "returned" =>
             /\ ret.info.iter = self.iter_
             /\ ret.info.iter <= args.maxiter
        /\ (/\ pc \in {"finish", "returned"}
            /\ loc.conv_crit \notin {"resid_atol", "resid_rtol", "covariance"})
           => (self.iter_ = args.maxiter /\ loc.conv_crit = "maxiter")

\* a solve() call is between its first line and its end
InSolve == pc \in {"check", "iterate", "callback", "finish"}

\* the number of steps a running solve() has left at most: four for every
\* iteration the cap still allows, and the position in the current round
StepsLeft ==
    4 * (args.maxiter - self.iter_)
    + (CASE pc = "callback" -> 3
         [] pc = "check" -> 2
         [] pc = "iterate" -> 1
         [] pc = "finish" -> 0
         [] OTHER -> 0 - 1)

\* C2: for every maxiter >= 0 the loop of both variants terminates: every
\* step of a running solve() brings its end nearer (StepsLeft decreases and
\* is never below -1), the iteration counter never exceeds maxiter, the
\* returned info["iter"] <= maxiter, and when no tolerance criterion fires
\* the loop exits with iter = maxiter and criterion "maxiter".
C2_LoopTerminates ==
    /\ []IterationCap
    /\ [][InSolve => (StepsLeft' < StepsLeft /\ StepsLeft' >= 0 - 1)]_vars

\* a solve() returns at the largest cap, with criterion "maxiter"
C2_Witness ==
    /\ pc = "returned"
    /\ args.maxiter = MaxIter
    /\ ret.info.iter = MaxIter
    /\ ret.info.conv_crit = "maxiter"

\* C3: the symmetric solve() always returns a result and never ends in an
\* exception, whatever maxiter >= 0 and whichever of atol and rtol are
\* supplied; reaching the cap is reported as criterion "maxiter".
C3_AlwaysReturns ==
    variant = "symmetric" =>
        /\ pc # "raised"
        /\ pc = "returned" =>
             /\ ret.kind = "return"
             /\ self.iter_ >= args.maxiter => ret.info.conv_crit = "maxiter"

SolverFinite ==
    /\ VecFinite(self.x)
    /\ MatFinite(self.A_mean)
    /\ MatFinite(self.Ainv_mean)
    /\ MatFinite(self.A_covfactor)
    /\ MatFinite(self.Ainv_covfactor)

\* C5: in the symmetric iteration a zero denominator s'y, s'W^A s or y'W^H y
\* makes solve() fail with a named error: no iteration completes with it,
\* and x, the residual, the means and the covariance factors never hold a
\* value obtained by dividing by it.
C5_ZeroDenominatorFails ==
    (variant = "symmetric" /\ Called) =>
        /\ \A i \in 1..Len(self.sy) : self.sy[i] # Zero
        /\ SolverFinite
        /\ loc.resid # None => VecFinite(loc.resid)
        /\ loc.step_size # None => IsFinite(loc.step_size)

\* C6: the noisy solve() with noise_scale < 0 raises ValueError before the
\* convergence check, before A is applied, before x_mean, the means or the
\* covariance factors change and before any callback; an omitted
\* noise_scale is 0.01, and noise_scale = 0 is accepted.
C6_NoiseScaleValidated ==
    (variant = "noisy" /\ Called) =>
        /\ (args.noise_scale # None /\ RLess(args.noise_scale, Zero)) =>
             /\ pc = "raised"
             /\ ret = [kind |-> "raise", exc |-> "ValueError"]
             /\ A_applied = 0
             /\ cb_calls = << >>
             /\ loc.conv_crit = NoneStr
             /\ [self EXCEPT !.iter_ = entry.iter_] = entry
        /\ args.noise_scale = None =>
             /\ pc # "raised"
             /\ loc.noise_scale = <<1, 100>>
        /\ args.noise_scale = Zero =>
             /\ pc # "raised"
             /\ loc.noise_scale = Zero

\* a second solve() with a negative noise_scale raised, on a solver that had
\* iterated before
C6_Witness ==
    /\ variant = "noisy"
    /\ pc = "raised"
    /\ solves = 2
    /\ last.outcome.iter >= 1
    /\ RLess(args.noise_scale, Zero)

\* C7: every solve() starts from the state derived from the priors
\* (iteration counter 0, empty histories, the prior beliefs, the initial
\* estimate); two consecutive calls with the same arguments return the same
\* iteration count, criterion and history length; and the history length is
\* the iteration count at every return.
C7_SolveStartsFromPriors ==
    /\ (pc = "check" /\ self.iter_ = 0) =>
         self = [solver_init(variant, A, b, A0, Ainv0, x0).self
                   EXCEPT !.iter_ = 0]
    /\ (variant = "symmetric" /\ pc = "returned") =>
         /\ Len(self.search_dir_list) = ret.info.iter
         /\ Len(self.obs_list) = ret.info.iter
         /\ Len(self.sy) = ret.info.iter
    /\ (/\ pc = "returned"
        /\ last.called
        /\ last.same_args
        /\ last.outcome.kind = "return") =>
         /\ ret.info.iter = last.outcome.iter
         /\ ret.info.conv_crit = last.outcome.conv_crit
         /\ Len(self.search_dir_list) = last.outcome.history

\* C8: the noisy has_converged decides in the order maxiter, covariance:
\* (True, "maxiter") whenever iter >= maxiter, whatever the trace; otherwise
\* (True, "covariance") iff trace(x_cov) <= ctol; otherwise (False, "").  It
\* never gives a residual criterion, and the symmetric one never gives
\* "covariance".
C8_NoisyFirstMatchWins ==
    /\ (variant = "noisy" /\ Checked) =>
         LET verdict == <<loc.has_converged, loc.conv_crit>>
             over    == self.iter_ >= args.maxiter
             byCov   == RLeq(Trace(self.x_cov), args.ctol)
         IN  /\ over => verdict = <<TRUE, "maxiter">>
             /\ (~over /\ byCov) => verdict = <<TRUE, "covariance">>
             /\ (~over /\ ~byCov) => verdict = <<FALSE, "">>
    /\ (variant = "noisy" /\ Called) =>
         loc.conv_crit \in {NoneStr, "", "maxiter", "covariance"}
    /\ (variant = "symmetric" /\ Called) =>
         loc.conv_crit \in {NoneStr, "", "maxiter", "resid_atol", "resid_rtol"}

\* on a solver that iterated in an earlier solve(), the cap is reached while
\* the trace is within ctol, and the verdict is "maxiter"
C8_Witness ==
    /\ variant = "noisy"
    /\ pc = "finish"
    /\ solves = 2
    /\ last.outcome.iter >= 1
    /\ self.iter_ >= args.maxiter
    /\ RLeq(Trace(self.x_cov), args.ctol)
    /\ loc.conv_crit = "maxiter"

\* C9: the callback never affects the solver: the solver called with a
\* callback goes through the same states (x, residual, means, covariance
\* factors, history) and returns the same x, A, Ainv and info as the solver
\* called with the same arguments and callback=None.
C9_CallbackTransparent ==
    pc # "new" =>
        /\ self = ref.self
        /\ loc = ref.loc
        /\ ret = ref.ret
        /\ ref.pc = (IF pc = "callback" THEN "check" ELSE pc)

\* a solve() with a callback has returned after two or more callbacks
C9_Witness ==
    /\ pc = "returned"
    /\ args.callback
    /\ Len(cb_calls) >= 2
    /\ ret = ref.ret

\* C10: a callback is invoked once per completed iteration, after the
\* iteration's step, updates and increment and before the next convergence
\* check, never for the round whose check fired: the i-th call sees counter
\* i and the x of that iteration, and there are info["iter"] calls at return.
C10_CallbackOncePerIteration ==
    Called =>
        /\ ~args.callback => cb_calls = << >>
        /\ args.callback =>
             /\ Len(cb_calls) = (IF pc = "callback" THEN self.iter_ - 1
                                 ELSE self.iter_)
             /\ \A i \in 1..Len(cb_calls) : cb_calls[i].iter = i
             /\ (pc # "callback" /\ Len(cb_calls) >= 1) =>
                  cb_calls[Len(cb_calls)].xk = self.x
        /\ pc = "returned" =>
             Len(cb_calls) = (IF args.callback THEN ret.info.iter ELSE 0)

\* a solve() with a callback has returned after a tolerance fired at the
\* second check or later
C10_Witness ==
    /\ pc = "returned"
    /\ args.callback
    /\ ret.info.iter >= 1
    /\ ret.info.conv_crit \in {"resid_atol", "resid_rtol"}
    /\ Len(cb_calls) = ret.info.iter

\* the loop of the current solve() was left by its break
LoopLeft == loc.has_converged /\ pc \in {"returned", "raised"}

\* C11: the calibration scales Phi and Psi are produced iff calibrate is
\* true and the iteration count at loop exit is > 5; in every other case
\* both are absent and the covariance factors of the returned A and Ainv
\* are the solver's final factors, not inflated.  The beliefs handed to the
\* callback are never calibrated.
C11_CalibrationGate ==
    /\ (variant = "symmetric" /\ LoopLeft) =>
         /\ pc = "returned"
         /\ ret.A.covfactor.factor = self.A_covfactor
         /\ ret.Ainv.covfactor.factor = self.Ainv_covfactor
         /\ IF args.calibrate /\ self.iter_ > CalibrationMinIter
            THEN /\ ret.A.covfactor.inflation = "Phi"
                 /\ ret.Ainv.covfactor.inflation = "Psi"
            ELSE /\ ret.A.covfactor.inflation = NoneStr
                 /\ ret.Ainv.covfactor.inflation = NoneStr
    /\ pc = "callback" =>
         /\ callback_randvars(self, variant, b).A_covfactor.inflation = NoneStr
         /\ callback_randvars(self, variant, b).Ainv_covfactor.inflation = NoneStr


\* C12: prior resolution is idempotent: _get_prior_params called again on
\* the same solver with the same A0, Ainv0 and x0 gives the same A-mean,
\* A-covariance factor, H-mean and H-covariance factor (and the same
\* exception or warnings) as the call before, for every input.
C12_PriorResolutionIdempotent ==
    \A i, j \in 1..Len(priors) : priors[i] = priors[j]


\* the elements of a sequence
Range(q) == { q[i] : i \in 1..Len(q) }

\* C13: when only a prior on Ainv is given (a plain array, a plain operator
\* or a distribution), prior resolution always yields a quadruple: the
\* H-mean is the prior (or its mean) and the A-mean is the inverse of the
\* H-mean when the operator inverts itself, the identity with a warning when
\* inversion is not implemented, and the dense inverse of the H-mean with a
\* cost warning when the prior has no inversion capability; no path ends in
\* an error.
C13_InversePriorResolved ==
    (A0.kind = "None" /\ Ainv0.kind # "None" /\ priors # << >>) =>
        /\ priors[1].raised = NoneStr
        /\ priors[1].Ainv0_mean = PriorMatrix(Ainv0)
        /\ IF PriorObject(Ainv0).kind = "ndarray"
           THEN /\ priors[1].A0_mean = Inverse2(PriorMatrix(Ainv0))
                /\ "costly" \in Range(priors[1].warnings)
           ELSE IF PriorObject(Ainv0).inv = "NotImplementedError"
           THEN /\ priors[1].A0_mean = Identity(Len(b))
                /\ "fallback" \in Range(priors[1].warnings)
           ELSE priors[1].A0_mean = Inverse2(PriorMatrix(Ainv0))

\* C14: an x0 that is neither None nor an array makes the construction of
\* the solver fail with NotImplementedError, for every combination of A0
\* and Ainv0 and in both variants: no solver object exists to be solved.
C14_GuessKindRejected ==
    (x0.kind \notin {"None", "ndarray"} /\ pc # "new") =>
        /\ pc = "init_raised"
        /\ ret = Raise("NotImplementedError")
        /\ self = NoSelf


\* C15: with no A0, no Ainv0 and no x0 the symmetric _get_prior_params
\* returns H-mean = A-mean = identity, H-covariance factor = identity and
\* A-covariance factor = the system operator A, and the solver's initial
\* estimate is x = H-mean @ b = b; the noisy one returns the same means and
\* the identity for both covariance factors.
C15_DefaultPriors ==
    (/\ pc = "idle"
     /\ x0.kind = "None"
     /\ A0.kind = "None"
     /\ Ainv0.kind = "None") =>
        /\ priors[1].raised = NoneStr
        /\ priors[1].A0_mean = Identity(Len(b))
        /\ priors[1].Ainv0_mean = Identity(Len(b))
        /\ priors[1].Ainv0_covfactor = Identity(Len(b))
        /\ priors[1].A0_covfactor =
             (IF variant = "symmetric" THEN A ELSE Identity(Len(b)))
        /\ self.A_mean = priors[1].A0_mean
        /\ self.A_covfactor = priors[1].A0_covfactor
        /\ self.Ainv_mean = priors[1].Ainv0_mean
        /\ self.Ainv_covfactor = priors[1].Ainv0_covfactor
        /\ self.x = b

\* a symmetric solver was built without priors and without a guess for a
\* system whose operator is not the identity
C15_Witness ==
    /\ pc = "idle"
    /\ variant = "symmetric"
    /\ x0.kind = "None"
    /\ A0.kind = "None"
    /\ Ainv0.kind = "None"
    /\ A # Identity(Len(b))
    /\ self.A_covfactor = A
    /\ self.x = b

\* C16: when Ainv0 is given, x0 is ignored: for fixed A, b, A0 and Ainv0 the
\* solver's initial estimate and beliefs, and so every iterate and the
\* result, are the same for every x0, x0 = None included.
C16_GuessIgnored ==
    (Ainv0.kind # "None" /\ pc = "idle") =>
        /\ self.x = solver_init(variant, A, b, A0, Ainv0, X0None).self.x
        /\ self.A_mean = solver_init(variant, A, b, A0, Ainv0, X0None).self.A_mean
        /\ self.Ainv_mean =
             solver_init(variant, A, b, A0, Ainv0, X0None).self.Ainv_mean
        /\ self.A_covfactor =
             solver_init(variant, A, b, A0, Ainv0, X0None).self.A_covfactor
        /\ self.Ainv_covfactor =
             solver_init(variant, A, b, A0, Ainv0, X0None).self.Ainv_covfactor


\* C17: scenario: the symmetric solver on A = [[2,0],[0,3]], b = [2,3] with
\* default priors, maxiter = 10, atol = 1e-10 and no other tolerance returns
\* x.mean = [1,1], criterion "resid_atol" and an iteration count <= 2.
C17_Scenario ==
    (/\ variant = "symmetric"
     /\ A = Scenario.A
     /\ b = Scenario.b
     /\ x0.kind = "None"
     /\ solves = 1
     /\ args \in ScenarioArgs) =>
        /\ pc # "raised"
        /\ self.iter_ <= 2
        /\ pc = "returned" =>
             /\ ret.x.mean = Vec2(1, 1)
             /\ ret.info.conv_crit = "resid_atol"
             /\ ret.info.iter <= 2


\* A is symmetric positive definite (n = 2)
IsSPD ==
    /\ A[1][2] = A[2][1]
    /\ RLess(Zero, A[1][1])
    /\ RLess(Zero, Det2(A))

\* the symmetric solver of a positive definite system with the default
\* (identity) priors
DefaultSPD ==
    /\ variant = "symmetric"
    /\ IsSPD
    /\ x0.kind = "None"
    /\ A0.kind = "None"
    /\ Ainv0.kind = "None"

ZeroVector == Array([i \in 1..Len(b) |-> Zero])

\* C18: exact termination: for symmetric positive definite A and default
\* priors the symmetric solver has a zero residual once n iterations are
\* done, never does more than n, and a solve() whose cap allows more than it
\* did returns with a residual criterion after at most n iterations.
C18_ExactTermination ==
    (DefaultSPD /\ Called) =>
        /\ self.iter_ <= Len(b)
        /\ Len(self.search_dir_list) <= Len(b)
        /\ Len(self.search_dir_list) = Len(b) => loc.resid = ZeroVector
        /\ (pc = "returned" /\ ret.info.iter < args.maxiter) =>
             /\ ret.info.conv_crit \in {"resid_atol", "resid_rtol"}
             /\ ret.info.iter <= Len(b)

\* C19: A-conjugacy: for the symmetric solver under identity priors and
\* positive definite A the search directions collected are pairwise
\* A-conjugate: s_i.T @ A @ s_j = 0 for i # j.
C19_Conjugate ==
    (DefaultSPD /\ Called) =>
        \A i, j \in 1..Len(self.search_dir_list) :
            i # j => Dot(self.search_dir_list[i],
                         MatVec(A, self.search_dir_list[j])) = Zero

\* r.T @ inv(A) @ r, the energy norm of the error, squared (n = 2)
Energy(r) == Dot(r, MatVec(Inverse2(A), r))

HasNaN(v) == \E i \in 1..Len(v) : v[i] = NaN

C21_OneApplicationPerIteration ==
    (variant = "symmetric" /\ Called) => A_applied = self.iter_ + 1


\* C22: in the first solve() of a symmetric solver the three history lists
\* are append-only and ordered by iteration: an iteration appends its search
\* direction, its observation and their product s.T @ y, one entry each, no
\* other step changes a list, and the lists are as long as the iteration
\* counter says.
C22_HistoryAppendOnly ==
    [][(variant = "symmetric" /\ solves' = 1) =>
          /\ Len(self'.search_dir_list) = self'.iter_
          /\ Len(self'.obs_list) = self'.iter_
          /\ Len(self'.sy) = self'.iter_
          /\ IF pc = "iterate"
             THEN /\ self'.search_dir_list =
                       Append(self.search_dir_list, loc'.search_dir)
                  /\ self'.obs_list = Append(self.obs_list, loc'.obs)
                  /\ self'.sy =
                       Append(self.sy, Dot(loc'.search_dir, loc'.obs))
                  /\ self'.iter_ = self.iter_ + 1
             ELSE /\ self'.search_dir_list = self.search_dir_list
                  /\ self'.obs_list = self.obs_list
                  /\ self'.sy = self.sy]_vars

\* a convergence check of a first solve() after two iterations, with two
\* different entries in each list
C22_Witness ==
    /\ variant = "symmetric"
    /\ solves = 1
    /\ pc = "check"
    /\ self.iter_ = 2
    /\ Len(self.search_dir_list) = 2
    /\ self.search_dir_list[1] # self.search_dir_list[2]
    /\ self.obs_list[1] # self.obs_list[2]
    /\ self.sy[1] # self.sy[2]


\* a denominator of the rank-2 update that is neither zero nor NaN
Nonzero(d) == IsFinite(d) /\ d # Zero

\* C23: secant condition: after a symmetric iteration with search direction s
\* and observation y whose denominators s.T @ V @ s and y.T @ W @ y are not
\* zero, the updated A_mean maps s to y and the updated Ainv_mean maps y to
\* s.
C23_Secant ==
    [][(/\ variant = "symmetric"
        /\ pc = "iterate"
        /\ Nonzero(Dot(loc'.search_dir,
                       MatVec(self.A_covfactor, loc'.search_dir)))
        /\ Nonzero(Dot(loc'.obs, MatVec(self.Ainv_covfactor, loc'.obs)))) =>
          /\ MatVec(self'.A_mean, loc'.search_dir) = loc'.obs
          /\ MatVec(self'.Ainv_mean, loc'.obs) = loc'.search_dir]_vars

\* after a first iteration with a non-zero direction the means are not the
\* prior means any more, A_mean is not A, and both secant equations hold
C23_Witness ==
    /\ variant = "symmetric"
    /\ x0.kind = "None"
    /\ solves = 1
    /\ self.iter_ = 1
    /\ pc \in {"check", "callback"}
    /\ SolverFinite
    /\ loc.search_dir # ZeroVector
    /\ self.A_mean # A
    /\ self.A_mean # Identity(Len(b))
    /\ self.Ainv_mean # Identity(Len(b))
    /\ MatVec(self.A_mean, loc.search_dir) = loc.obs
    /\ MatVec(self.Ainv_mean, loc.obs) = loc.search_dir


\* C24: every search direction is minus the current Ainv_mean applied to the
\* current residual A @ x - b, and under the identity prior on Ainv (no
\* priors, no guess) the first search direction of a solve() is the negative
\* initial residual.
C24_SearchDirection ==
    [][pc = "iterate" =>
          /\ loc'.search_dir =
               VecNeg(MatVec(self.Ainv_mean, VecSub(MatVec(A, self.x), b)))
          /\ (/\ self.iter_ = 0
              /\ x0.kind = "None"
              /\ A0.kind = "None"
              /\ Ainv0.kind = "None") =>
               loc'.search_dir = VecNeg(VecSub(MatVec(A, self.x), b))]_vars


\* both classes resolve the constructor arguments to the same quadruple
SameQuadruple ==
    PriorOutcome(get_prior_params_at("noisy", A, b, A0, Ainv0, x0, x0.value))
    = PriorOutcome(get_prior_params_at("symmetric", A, b, A0, Ainv0, x0,
                                        x0.value))

InLoop(p) == p \in {"check", "iterate", "finish", "returned"}

\* C25: started from the same prior quadruple, with noise_scale = 0, the
\* noisy solver after k iterations has the x_mean, A_mean, Ainv_mean,
\* A_covfactor and Ainv_covfactor of the symmetric solver after k
\* iterations.
C25_NoisyMatchesSymmetric ==
    (/\ InLoop(pc)
     /\ InLoop(ref.pc)
     /\ args.noise_scale = Zero
     /\ SameQuadruple
     /\ self.iter_ = ref.self.iter_) =>
        /\ self.x = ref.self.x
        /\ self.A_mean = ref.self.A_mean
        /\ self.Ainv_mean = ref.self.Ainv_mean
        /\ self.A_covfactor = ref.self.A_covfactor
        /\ self.Ainv_covfactor = ref.self.Ainv_covfactor


\* the priors of the solver were built from a guess x0, by __init__ alone
FromGuess ==
    /\ pc = "idle"
    /\ Len(priors) = 1
    /\ A0.kind = "None"
    /\ Ainv0.kind = "None"
    /\ x0.kind = "ndarray"

\* C26: with priors built from a guess x0 the prior means, as the operators
\* apply when solve() uses them, are consistent with the initial estimate:
\* Ainv_mean @ b is the initial x and A_mean @ x is b, in both classes and
\* for every sign of b.T @ x0.
C26_GuessConsistent ==
    FromGuess =>
        /\ MatVec(self.Ainv_mean, b) = self.x
        /\ MatVec(self.A_mean, self.x) = b

\* C27: the noisy solve() leaves x_cov and both covariance factors as the
\* constructor set them, through every iteration and every call; the trace
\* reported at a return is that of the constructed x_cov; "covariance" is
\* only ever the verdict at iteration 0; a noisy solve() that went past
\* iteration 0 made exactly maxiter iterations and ended with "maxiter";
\* and none raises once it iterates.
C27_NoisyCovarianceFrozen ==
    (variant = "noisy" /\ pc \notin {"new", "init_raised"}) =>
        LET made == solver_init(variant, A, b, A0, Ainv0, x0).self
        IN  /\ self.x_cov = made.x_cov
            /\ self.A_covfactor = made.A_covfactor
            /\ self.Ainv_covfactor = made.Ainv_covfactor
            /\ (Called /\ loc.conv_crit = "covariance") => self.iter_ = 0
            /\ pc = "raised" => self.iter_ = 0
            /\ pc = "returned" =>
                  /\ ret.info.trace_cov_sol = Trace(made.x_cov)
                  /\ ret.info.iter > 0 =>
                        /\ ret.info.iter = args.maxiter
                        /\ ret.info.conv_crit = "maxiter"

\* a second noisy solve() returned after two or more iterations that moved
\* x_mean and the means, on a solver that had iterated before
C27_Witness ==
    /\ variant = "noisy"
    /\ pc = "returned"
    /\ solves = 2
    /\ last.outcome.iter >= 1
    /\ ret.info.iter >= 2
    /\ ret.info.conv_crit = "maxiter"
    /\ self.Ainv_mean # solver_init(variant, A, b, A0, Ainv0, x0).self.Ainv_mean

\* the current solve() returned with the two calibration scales
Calibrated ==
    /\ variant = "symmetric"
    /\ pc = "returned"
    /\ ret.A.covfactor.inflation = "Phi"
    /\ ret.Ainv.covfactor.inflation = "Psi"

\* C28: whenever the calibration computes Phi and Psi, the indices
\* iter_ .. n-1 the Rayleigh quotient is predicted at are not empty, that is
\* iter_ < n.
C28_RemainingDimsNonEmpty ==
    Calibrated =>
        /\ remaining_dims(self, A) # {}
        /\ self.iter_ < Len(A)

\* C29: after the adjustment of x0 in the prior construction from a guess
\* (negated when b.T x0 < 0, replaced by (||b||^2 / b.T A b) b when
\* b.T x0 = 0), the inner product b.T x0 the means are formed with is
\* strictly positive, and so is alpha = b.T x0 / (2 ||b||^2), for every A.
C29_AdjustedInnerProductPositive ==
    FromGuess =>
        /\ RLess(Zero, GuessAdjust(A, b, x0.value).bx0)
        /\ RLess(Zero, matrix_prior_means_from_initial_solution_guess(
                           A, b, x0.value).alpha)

=============================================================================
